---- MODULE Spec2Model ----
\* The hand node of BluBot (src/hand_with_telemetry.py): the joints with their
\* eased trajectories, the gestures, the keypress handler, the MQTT command
\* handler and the main loop with its status reporting.
EXTENDS Integers, Sequences, FiniteSets, TLC

VARIABLES
  position,       \* Joint.position of each joint
  queue,          \* Joint.intermediate_positions of each joint
  pc,             \* where the program is
  gesture,        \* the blocking gesture in progress, and its argument
  ret,            \* where the blocking gesture in progress returns to
  keypress,       \* the keypress mailbox
  input_mode,
  input_string,
  quit_flag,
  status,         \* the result of the main loop's last Hand.update
  status_timeout, \* "start" (0) or "armed" (time.monotonic() + 3.0)
  finished,
  expired,        \* time.monotonic() > status_timeout, as the last step found it
  ready,          \* what the last Hand.update returned
  tick,           \* the update the last step called: "main" and "gesture" for
                  \* Hand.update, "thumb" for thumb.update, "none"
  sent,           \* the lines the last step published
  returned,       \* the gesture or nudge that returned in the last step
  inputs,         \* key events and messages received so far
  phase,          \* main-loop iterations modulo InputStride
  history,        \* the inputs so far: <<"key", k>>, <<"message", m>>, <<"call", g>>
  self_fingers,   \* Hand.fingers, the list that display_binary reverses in place
  telemetry,      \* the console: whether its MQTT client is set (not None)
  reconnect,      \* the console: the time of its next connection attempt
  enabled,        \* the console: Button.enabled of its buttons
  now,            \* the console: time.monotonic(), in seconds
  reachable,      \* whether a connection to the broker succeeds
  to_hand,        \* the broker: commands published, not yet dispatched by the hand
  to_console      \* the broker: status lines published, not yet dispatched by
                  \* the console

vars == <<position, queue, pc, gesture, ret, keypress, input_mode, input_string,
          quit_flag, status, status_timeout, finished, expired, ready, tick,
          sent, returned, inputs, phase, history, self_fingers,
          telemetry, reconnect, enabled, now, reachable, to_hand, to_console>>

\* the state of the hand node, and the state of the console
hand_node == <<position, queue, pc, gesture, ret, keypress, input_mode,
               input_string, quit_flag, status, status_timeout, finished,
               expired, ready, tick, sent, returned, inputs, phase, history,
               self_fingers>>
console == <<telemetry, reconnect, enabled, now, reachable>>
network == <<to_hand, to_console>>

-----------------------------------------------------------------------------
\* Python floats: binary64 values m * 2^e kept as <<e, l3, l2, l1, l0>>, the
\* 53-bit significand m in four limbs of 13 bits (l3 holds the top 14 bits);
\* every operation rounds its exact result to nearest, ties to even.

Limb == 2^13

Zero == <<0, 0, 0, 0, 0>>

IsZero(x) == x[2] = 0 /\ x[3] = 0 /\ x[4] = 0 /\ x[5] = 0

\* the element of a one-element set; The({e : v \in {d}}) is e with v bound
\* to the value of d, which is evaluated once
The(S) == CHOOSE v \in S : TRUE

\* number of significant bits of v < 2^15
BitLen(v) ==
  IF v = 0 THEN 0 ELSE CHOOSE n \in 1..15 : 2^(n-1) <= v /\ v < 2^n

\* limb k (0-based) of the 9-limb little-endian number P, 0 beyond it
LimbAt(P, k) == IF k >= 0 /\ k <= 8 THEN P[k+1] ELSE 0

\* the 13 bits of P from bit 13 * q + r on, 0 <= r < 13
BitsFrom(P, q, r) == (LimbAt(P, q) \div 2^r) + (LimbAt(P, q+1) % 2^r) * 2^(13 - r)

\* limb k of P shifted right by s bits (a negative s shifts left)
ShiftedLimb(P, s, k) == BitsFrom(P, (s + 13 * k) \div 13, (s + 13 * k) % 13)

\* whether any of the s lowest bits of P is set
AnyLowBits(P, s) ==
  IF s <= 0 THEN FALSE
  ELSE LET q == s \div 13
           r == s % 13
       IN  (\E k \in 0..8 : k < q /\ P[k+1] # 0) \/ (LimbAt(P, q) % 2^r # 0)

\* bit s of P
BitOf(P, s) == (LimbAt(P, s \div 13) \div 2^(s % 13)) % 2

\* number of significant bits of the 9-limb number P # 0
BitLength(P) ==
  LET top == CHOOSE k \in 1..9 : P[k] # 0 /\ \A j \in (k+1)..9 : P[j] = 0
  IN  13 * (top - 1) + BitLen(P[top])

\* the significand x + 1 with the exponent e
Increment(e, x) ==
  IF x[4] + 1 < Limb THEN <<e, x[1], x[2], x[3], x[4] + 1>>
  ELSE IF x[3] + 1 < Limb THEN <<e, x[1], x[2], x[3] + 1, 0>>
  ELSE IF x[2] + 1 < Limb THEN <<e, x[1], x[2] + 1, 0, 0>>
  ELSE IF x[1] + 1 < 2 * Limb THEN <<e, x[1] + 1, 0, 0, 0>>
  ELSE <<e + 1, Limb, 0, 0, 0>>

\* P * 2^e for a P of 53 + s bits, rounded to 53 bits, ties to even
RoundShifted(P, e, s) ==
  The({ IF s > 0 /\ BitOf(P, s - 1) = 1 /\ (AnyLowBits(P, s - 1) \/ x[4] % 2 = 1)
        THEN Increment(e + s, x)
        ELSE <<e + s, x[1], x[2], x[3], x[4]>>
        : x \in {<<ShiftedLimb(P, s, 3) + Limb * ShiftedLimb(P, s, 4),
                   ShiftedLimb(P, s, 2), ShiftedLimb(P, s, 1), ShiftedLimb(P, s, 0)>>} })

\* P * 2^e, P a 9-limb number, rounded to the nearest binary64, ties to even
RoundBig(P, e) ==
  The({ IF \A k \in 1..9 : p[k] = 0 THEN Zero
        ELSE The({ RoundShifted(p, x, s) : s \in {BitLength(p) - 53} })
        : p \in {P}, x \in {e} })

\* carry (and borrow) propagation over the columns c[k..9], whose total is >= 0
RECURSIVE CarryFrom(_, _, _, _)
CarryFrom(c, k, carry, out) ==
  IF k = 9 THEN Append(out, c[9] + carry)
  ELSE The({ CarryFrom(c, k + 1, t \div Limb, Append(out, t % Limb))
             : t \in {c[k] + carry} })

Carry(c) == The({ CarryFrom(cv, 1, 0, <<>>) : cv \in {c} })

\* the significand of x as a 9-limb number
Big(x) == <<x[5], x[4], x[3], x[2] % Limb, x[2] \div Limb, 0, 0, 0, 0>>

\* P * 2^d for -60 <= d <= 60, without the bits below bit 0
ShiftLeft(P, d) == [k \in 1..9 |-> ShiftedLimb(P, -d, k - 1)]

\* float(n) for an integer 0 <= n < 2^31
FFromInt(n) ==
  RoundBig(<<n % Limb, (n \div Limb) % Limb, n \div (Limb * Limb),
             0, 0, 0, 0, 0, 0>>, 0)

\* x * y for x, y >= 0
FMul(x, y) ==
  The({ IF IsZero(a) \/ IsZero(b) THEN Zero
        ELSE RoundBig(Carry(<<a[5]*b[5],
                              a[5]*b[4] + a[4]*b[5],
                              a[5]*b[3] + a[4]*b[4] + a[3]*b[5],
                              a[5]*b[2] + a[4]*b[3] + a[3]*b[4] + a[2]*b[5],
                              a[4]*b[2] + a[3]*b[3] + a[2]*b[4],
                              a[3]*b[2] + a[2]*b[3],
                              a[2]*b[2], 0, 0>>), a[1] + b[1])
        : a \in {x}, b \in {y} })

\* x + y for x, y >= 0
FAdd(x, y) ==
  The({ IF IsZero(a) THEN b
        ELSE IF IsZero(b) THEN a
        ELSE IF a[1] - b[1] > 60 THEN a
        ELSE IF b[1] - a[1] > 60 THEN b
        ELSE The({ RoundBig(Carry(<<A[1] + B[1], A[2] + B[2], A[3] + B[3],
                                    A[4] + B[4], A[5] + B[5], A[6] + B[6],
                                    A[7] + B[7], A[8] + B[8], A[9] + B[9]>>), e)
                   : e \in {IF a[1] <= b[1] THEN a[1] ELSE b[1]},
                     A \in {ShiftLeft(Big(a), IF a[1] <= b[1] THEN 0 ELSE a[1] - b[1])},
                     B \in {ShiftLeft(Big(b), IF a[1] <= b[1] THEN b[1] - a[1] ELSE 0)} })
        : a \in {x}, b \in {y} })

\* x < y for x, y >= 0
FLess(x, y) ==
  \E a \in {x}, b \in {y} :
    IF IsZero(b) THEN FALSE
    ELSE IF IsZero(a) THEN TRUE
    ELSE IF a[1] # b[1] THEN a[1] < b[1]
    ELSE IF a[2] # b[2] THEN a[2] < b[2]
    ELSE IF a[3] # b[3] THEN a[3] < b[3]
    ELSE IF a[4] # b[4] THEN a[4] < b[4]
    ELSE a[5] < b[5]

\* x - y for x >= y >= 0 with exponents at most 60 apart
FSub(x, y) ==
  The({ IF IsZero(b) THEN a
        ELSE The({ RoundBig(Carry(<<A[1] - B[1], A[2] - B[2], A[3] - B[3],
                                    A[4] - B[4], A[5] - B[5], A[6] - B[6],
                                    A[7] - B[7], A[8] - B[8], A[9] - B[9]>>), e)
                   : e \in {IF a[1] <= b[1] THEN a[1] ELSE b[1]},
                     A \in {ShiftLeft(Big(a), IF a[1] <= b[1] THEN 0 ELSE a[1] - b[1])},
                     B \in {ShiftLeft(Big(b), IF a[1] <= b[1] THEN b[1] - a[1] ELSE 0)} })
        : a \in {x}, b \in {y} })

\* x / n for x >= 0 and an integer 0 < n < 2^13
FDivInt(x, n) ==
  The({ IF IsZero(a) THEN Zero
        ELSE LET t3 == (a[2] % n) * Limb + a[3]
                 t2 == (t3 % n) * Limb + a[4]
                 t1 == (t2 % n) * Limb + a[5]
                 t0 == (t1 % n) * Limb
                 tm == (t0 % n) * Limb
                 tn == (tm % n) * Limb
                 sticky == IF tn % n # 0 /\ (tn \div n) % 2 = 0 THEN 1 ELSE 0
             IN  RoundBig(Carry(<<tn \div n + sticky, tm \div n, t0 \div n, t1 \div n,
                                  t2 \div n, t3 \div n, a[2] \div n, 0, 0>>),
                          a[1] - 39)
        : a \in {x} })

\* floor(x) for 0 <= x < 2^30
FFloor(x) ==
  The({ IF IsZero(a) \/ a[1] < -52 THEN 0
        ELSE The({ w[1] + Limb * w[2] + Limb * Limb * w[3] : w \in {ShiftLeft(Big(a), a[1])} })
        : a \in {x} })

\* a signed value: <<negative, magnitude>>
Signed(neg, x) == The({ <<neg /\ ~IsZero(a), a>> : a \in {x} })

\* x - y for x, y >= 0, as a signed value
FSubSigned(x, y) ==
  The({ IF FLess(a, b) THEN Signed(TRUE, FSub(b, a)) ELSE Signed(FALSE, FSub(a, b))
        : a \in {x}, b \in {y} })

\* int(s): truncation towards zero
FInt(s) == The({ IF v[1] THEN -FFloor(v[2]) ELSE FFloor(v[2]) : v \in {s} })

-----------------------------------------------------------------------------
\* Bounds of the environment

\* key events and messages the environment delivers in a run
MaxInputs == 1

\* the environment delivers input only every InputStride-th main-loop iteration
InputStride == 10

\* key events of a run of the typing environment
MaxTyped == 4

\* direct calls of a run of the calling environment, not counting repetitions
MaxCalls == 1

\* key events and messages of a run of the environment with remote key presses
MaxRemote == 2
MaxTime == 14
FlexionSamples == 200
MaxCommands == 1
MaxInFlight == 2

-----------------------------------------------------------------------------
\* Constants of the program

STATUS_READY == "status:READY"
STATUS_BUSY == "status:BUSY"
TELEMETRY == "telemetry"

INPUT_NORMAL == 0
INPUT_BINARY == 1
INPUT_ARITHMETIC == 2

num_steps == 50

Joints == {"wrist", "thumb", "index", "middle", "ring", "pinkie"}

min_pos == [j \in Joints |->
  CASE j = "wrist" -> 0 [] j = "thumb" -> 10 [] j = "index" -> 20
    [] j = "middle" -> 0 [] j = "ring" -> 10 [] j = "pinkie" -> 10]

max_pos == [j \in Joints |->
  CASE j = "wrist" -> 180 [] j = "thumb" -> 150 [] j = "index" -> 130
    [] j = "middle" -> 140 [] j = "ring" -> 130 [] j = "pinkie" -> 120]

fingers == <<"thumb", "index", "middle", "ring", "pinkie">>
fingers_not_thumb == <<"index", "middle", "ring", "pinkie">>

Fingers == {self_fingers[i] : i \in 1..Len(self_fingers)}

Reverse(s) == [i \in 1..Len(s) |-> s[Len(s) + 1 - i]]

\* list.index: the 0-based place of f in the list s
IndexOf(s, f) == (CHOOSE i \in 1..Len(s) : s[i] = f) - 1

-----------------------------------------------------------------------------
\* Joint

One == FFromInt(1)
Two == FFromInt(2)
Four == FFromInt(4)
Half == FDivInt(One, 2)

cubic_ease_in_out(t) ==
  IF FLess(t, Half)
  THEN FMul(FMul(FMul(Four, t), t), t)
  ELSE LET f == FSub(Two, FMul(Two, t))   \* the magnitude of 2*t - 2 <= 0
       IN  FSub(One, FMul(FMul(FMul(Half, f), f), f))

\* eased_step and 1 - eased_step of each step of set_servo_angle's loop
eased_step == [step \in 0..(num_steps - 1) |->
  cubic_ease_in_out(FDivInt(FFromInt(step), num_steps - 1))]

one_minus_eased_step == [step \in 0..(num_steps - 1) |-> FSub(One, eased_step[step])]

\* the values set_servo_angle appends for a start angle and a clamped target
Interpolate(start_angle, target_angle) ==
  The({ [k \in 1..num_steps |->
           FAdd(FMul(one_minus_eased_step[k - 1], s), FMul(eased_step[k - 1], t))]
        : s \in {start_angle}, t \in {target_angle} })

\* the clamping of set_servo_angle; angle is a signed value
ClampTarget(j, angle) ==
  The({ IF a[1] \/ FLess(a[2], FFromInt(min_pos[j])) THEN FFromInt(min_pos[j])
        ELSE IF FLess(FFromInt(max_pos[j]), a[2]) THEN FFromInt(max_pos[j])
        ELSE a[2]
        : a \in {angle} })

\* set_servo_angle, but clearing the pending values before it appends
set_servo_angle_replacing(Q, j, angle) ==
  [Q EXCEPT ![j] = Interpolate(position[j], ClampTarget(j, angle))]

\* Joint.set_servo_angle on joint j of the queues Q: the queues afterwards
set_servo_angle(Q, j, angle) ==
  [Q EXCEPT ![j] = @ \o Interpolate(position[j], ClampTarget(j, angle))]

Angle(n) == Signed(FALSE, FFromInt(n))

\* Joint.update, but stopping at the first joint of js that is still moving
UpdateJoints_until_first_busy(js) ==
  LET first == CHOOSE j \in js : queue[j] # <<>>
  IN  /\ position' = [position EXCEPT ![first] = Head(queue[first])]
      /\ queue' = [queue EXCEPT ![first] = Tail(queue[first])]

\* Joint.update on every joint of the set js: the joints whose queue is not
\* empty pop its front value and take it as their position
UpdateJoints(js) ==
  /\ position' = [j \in Joints |->
       IF j \in js /\ queue[j] # <<>> THEN Head(queue[j]) ELSE position[j]]
  /\ queue' = [j \in Joints |->
       IF j \in js /\ queue[j] # <<>> THEN Tail(queue[j]) ELSE queue[j]]

servo_min == 114
servo_max == 644

\* the pulse width of Joint.update, but scaled by servo_max
pulse_width_scaled_by_servo_max(angle) ==
  (FFloor(FMul(angle, FFromInt(servo_max))) \div 180) + servo_min

\* the pulse width Joint.update commands for the angle it pops:
\* int(angle * (servo_max - servo_min) // 180 + servo_min), where the product
\* is rounded and the floor division of the float is exact
pulse_width(angle) ==
  (FFloor(FMul(angle, FFromInt(servo_max - servo_min))) \div 180) + servo_min

\* Joint.get_flexion, but measured from max_pos
get_flexion_from_max_pos(j, pos) ==
  The({ FInt(Signed(d[1], FMul(FDivInt(d[2], max_pos[j] - min_pos[j]), FFromInt(100))))
        : d \in {FSubSigned(FFromInt(max_pos[j]), pos)} })

\* Joint.get_flexion
get_flexion(j, pos) ==
  The({ FInt(Signed(d[1], FMul(FDivInt(d[2], max_pos[j] - min_pos[j]), FFromInt(100))))
        : d \in {FSubSigned(pos, FFromInt(min_pos[j]))} })

-----------------------------------------------------------------------------
\* Hand: each gesture as the set_servo_angle calls it makes, in their order;
\* a call is <<joint, requested angle>>

open_finger(f) == <<f, Angle(min_pos[f])>>

close_finger(f) == <<f, Angle(max_pos[f])>>

\* make_palm, but opening the fingers of fingers_not_thumb only
make_palm_without_thumb ==
  [i \in 1..Len(fingers_not_thumb) |-> open_finger(fingers_not_thumb[i])]

make_palm == [i \in 1..Len(self_fingers) |-> open_finger(self_fingers[i])]

make_call_me ==
  <<open_finger("thumb"), close_finger("index"), close_finger("middle"),
    close_finger("ring"), open_finger("pinkie")>>

\* the first statement of clear_thumb
clear_thumb_start == << <<"thumb", Angle(70)>> >>

\* the last statement of close_thumb, but closing the thumb to its max_pos
close_thumb_end_at_max_pos == <<close_finger("thumb")>>

\* the last statement of close_thumb
close_thumb_end == << <<"thumb", Angle(120)>> >>

\* make_fist between clear_thumb and close_thumb
make_fist_fingers ==
  [i \in 1..Len(fingers_not_thumb) |-> close_finger(fingers_not_thumb[i])]

\* make_metal between clear_thumb and close_thumb
make_metal_fingers ==
  <<open_finger("index"), close_finger("middle"), close_finger("ring"),
    open_finger("pinkie")>>

\* make_number's loop, but counting the fingers from the index
make_number_fingers_from_index(n) ==
  [i \in 1..Len(fingers_not_thumb) |->
     IF IndexOf(fingers_not_thumb, fingers_not_thumb[i]) <= n
     THEN open_finger(fingers_not_thumb[i])
     ELSE close_finger(fingers_not_thumb[i])]

\* make_number's loop over fingers_not_thumb
make_number_fingers(n) ==
  [i \in 1..Len(fingers_not_thumb) |->
     IF IndexOf(self_fingers, fingers_not_thumb[i]) <= n
     THEN open_finger(fingers_not_thumb[i])
     ELSE close_finger(fingers_not_thumb[i])]

make_casey_neistat_wave ==
  LET once == [i \in 1..Len(fingers_not_thumb) |-> close_finger(fingers_not_thumb[i])]
              \o [i \in 1..Len(fingers_not_thumb) |-> open_finger(fingers_not_thumb[i])]
  IN  make_palm \o once \o once

make_ripple_wave ==
  LET rev == Reverse(fingers_not_thumb)
      once == [i \in 1..Len(rev) |-> <<rev[i], Angle(50)>>]
              \o [i \in 1..Len(rev) |-> open_finger(rev[i])]
  IN  make_palm \o once \o once

\* Hand.fingers after display_binary, had it not swapped the list back
fingers_left_reversed(fs) == Reverse(fs)

\* Hand.fingers after the two self.fingers.reverse() of display_binary
fingers_after_display_binary(fs) == Reverse(Reverse(fs))

\* the joints a telemetry line lists, in the order of show_positions
show_positions == self_fingers \o <<"wrist">>

\* n & 2**i for n >= 0
Bit(n, i) == (n \div 2^i) % 2

\* display_binary's loop, but for the bits 3 to 0 only
display_binary_bits_without_thumb(n) ==
  [k \in 1..4 |->
     IF Bit(n, 4 - k) # 0 THEN open_finger(Reverse(self_fingers)[4 - k + 1])
                          ELSE close_finger(Reverse(self_fingers)[4 - k + 1])]

\* display_binary's loop, but over the finger list as it is
display_binary_bits_unreversed(n) ==
  [k \in 1..5 |->
     IF Bit(n, 5 - k) # 0 THEN open_finger(self_fingers[5 - k + 1])
                          ELSE close_finger(self_fingers[5 - k + 1])]

\* display_binary's loop over the reversed finger list, i from 4 down to 0
display_binary_bits(n) ==
  [k \in 1..5 |->
     IF Bit(n, 5 - k) # 0 THEN open_finger(Reverse(self_fingers)[5 - k + 1])
                          ELSE close_finger(Reverse(self_fingers)[5 - k + 1])]

\* the queues Q after the set_servo_angle calls of the list calls
RECURSIVE Run(_, _)
Run(Q, calls) ==
  IF calls = <<>> THEN Q
  ELSE Run(set_servo_angle(Q, Head(calls)[1], Head(calls)[2]), Tail(calls))

\* Hand.update, but looking at the thumb only
HandReady_thumb_only == queue["thumb"] = <<>>

\* what Hand.update returns: every finger's Joint.update found its queue empty
HandReady == \A f \in Fingers : queue[f] = <<>>

-----------------------------------------------------------------------------
\* Input: keys and messages

ENTER == "ENTER"      \* chr(13)
ESCAPE == "ESCAPE"    \* chr(27)

Digits == {"0", "1", "2", "3", "4", "5", "6", "7", "8", "9"}
OpenKeys == {"q", "w", "e", "r", "t"}
CloseKeys == {"a", "s", "d", "f", "g"}
number_keys == <<"1", "2", "3", "4", "5">>

\* the local keys the environment presses (all with codes in range(13, 127))
LocalKeys == OpenKeys \cup CloseKeys \cup {"1", "2", "3", "4", "5", "0", "9"}
             \cup {"z", "x", "c", "v", "n", "m", "b", "=", "-", "y", "k", ENTER, ESCAPE}

\* the keys of the typing environment
TypingKeys == {"=", "-", "1", ENTER}

\* the finger of a nudge key
KeyFinger(k) ==
  CASE k \in {"q", "a"} -> "pinkie"
    [] k \in {"w", "s"} -> "ring"
    [] k \in {"e", "d"} -> "middle"
    [] k \in {"r", "f"} -> "index"
    [] k \in {"t", "g"} -> "thumb"

DigitValue(c) == IndexOf(<<"0", "1", "2", "3", "4", "5", "6", "7", "8", "9">>, c)

\* eval(input_string) for a string of digits, '+' and '-': <<TRUE, value>>, or
\* <<FALSE, 0>> when Python raises SyntaxError (an empty string, a trailing
\* sign, a nonzero literal with a leading zero)
RECURSIVE EvalFrom(_, _, _, _, _, _)
EvalFrom(s, total, sign, num, first, ok) ==
  LET literal_ok == ~(first = 0 /\ num # 0)
  IN  IF s = <<>> THEN
        IF ok /\ num >= 0 /\ literal_ok THEN <<TRUE, total + sign * num>> ELSE <<FALSE, 0>>
      ELSE LET c == Head(s)
               m == IF c = "-" THEN -1 ELSE 1
           IN  IF c \in Digits THEN
                 IF num < 0 THEN EvalFrom(Tail(s), total, sign, DigitValue(c), DigitValue(c), ok)
                 ELSE EvalFrom(Tail(s), total, sign, num * 10 + DigitValue(c), first, ok)
               ELSE IF num >= 0 THEN
                 EvalFrom(Tail(s), total + sign * num, m, -1, -1, ok /\ literal_ok)
               ELSE EvalFrom(Tail(s), total, sign * m, -1, -1, ok)

eval(s) == EvalFrom(s, 0, 1, -1, -1, TRUE)

\* int(input_string) for a string of digits: <<TRUE, value>>, or <<FALSE, 0>>
\* when Python raises ValueError
int_of(s) ==
  IF s = <<>> \/ \E i \in 1..Len(s) : s[i] \notin Digits THEN <<FALSE, 0>>
  ELSE EvalFrom(s, 0, 1, -1, 1, TRUE)

COMMAND_TOPIC == "hand/commands"
TELEMETRY_TOPIC == "hand/telemetry"

\* a message: its topic and its payload split at the colons
Msg(topic, words) == <<topic, words>>

Messages ==
  { Msg(COMMAND_TOPIC, <<"COMMAND", w>>) :
      w \in {"PALM", "FIST", "CALL_ME", "METAL", "WAVE", "palm", "", "x", "q", "=", "Q"} }
  \cup { Msg(COMMAND_TOPIC, <<"FIST">>), Msg(TELEMETRY_TOPIC, <<"LEFT_HAND,status", "READY">>) }

-----------------------------------------------------------------------------
\* The console (cyberdeck.py)

MQTT_ENABLED == TRUE
RECONNECT_RETRY == 5

\* connect_to_broker(mqtt_enabled): the client it returns (TRUE for a
\* client, FALSE for None) and what it leaves of the buttons
connect_to_broker(mqtt_enabled) ==
  IF ~mqtt_enabled THEN [client |-> FALSE, buttons |-> enabled]
  ELSE IF reachable THEN [client |-> TRUE, buttons |-> TRUE]
  ELSE [client |-> FALSE, buttons |-> FALSE]

\* the console up to its main loop: the buttons are created enabled, the
\* first connection is attempted, and the timer is set
ConsoleStart(brokers) ==
  /\ reachable \in brokers
  /\ now = 0
  /\ telemetry = (MQTT_ENABLED /\ reachable)
  /\ enabled = (~MQTT_ENABLED \/ reachable)
  /\ reconnect = now + RECONNECT_RETRY
  /\ to_hand = <<>>
  /\ to_console = <<>>

-----------------------------------------------------------------------------
\* The program

\* everything of the hand node but the positions, as the set-up leaves it
HandIdle ==
  /\ queue = [j \in Joints |-> <<>>]
  /\ pc = "start"
  /\ gesture = <<"none">>
  /\ ret = "none"
  /\ keypress = ""
  /\ input_mode = INPUT_NORMAL
  /\ input_string = <<>>
  /\ quit_flag = FALSE
  /\ status = TRUE
  /\ status_timeout = "start"
  /\ finished = FALSE
  /\ expired = FALSE
  /\ ready = TRUE
  /\ tick = "none"
  /\ sent = <<>>
  /\ returned = <<>>
  /\ inputs = 0
  /\ phase = 0
  /\ history = <<>>
  /\ self_fingers = fingers

HandInit ==
  /\ position = [j \in Joints |-> Zero]
  /\ HandIdle

Init == HandInit /\ ConsoleStart({TRUE})

\* what a stretch of straight-line code leaves: the set_servo_angle calls it
\* made, where the program is then, and the variables it assigned
Outcome(c, p, kp, mode, str, g, r, back) ==
  [calls |-> c, pc |-> p, keypress |-> kp, input_mode |-> mode,
   input_string |-> str, gesture |-> g, ret |-> r, returned |-> back]

Apply(o) ==
  /\ queue' = Run(queue, o.calls)
  /\ pc' = o.pc
  /\ keypress' = o.keypress
  /\ input_mode' = o.input_mode
  /\ input_string' = o.input_string
  /\ gesture' = o.gesture
  /\ ret' = o.ret
  /\ returned' = o.returned

\* a step that calls no update and publishes nothing
NoUpdate ==
  /\ tick' = "none"
  /\ sent' = <<>>
  /\ expired' = FALSE

\* the blocking gesture g (make_fist, make_metal, make_number) up to the wait
\* of its clear_thumb; it will return to r
StartClearThumb(g, r, kp) ==
  Outcome(clear_thumb_start, "clear_thumb", kp, input_mode, input_string, g, r, <<>>)

\* the mode blocks of the keypress handler (lines 436-472) for the key kp: the
\* mode and string they leave and what happens next ("done", "crash", or
\* "display" of n by display_binary)
ModeBlocks(kp) ==
  LET mode1 == IF kp = "b" THEN INPUT_BINARY ELSE input_mode
      str1 == IF kp = "b" THEN <<>> ELSE input_string
      str2 == IF mode1 = INPUT_BINARY /\ kp \in Digits THEN Append(str1, kp) ELSE str1
  IN  IF mode1 = INPUT_BINARY THEN
        \* len(input_number_string) raises NameError unless keypress == chr(13)
        IF kp = ENTER /\ int_of(str2)[1]
        THEN [mode |-> mode1, str |-> str2, next |-> "display", n |-> int_of(str2)[2]]
        ELSE [mode |-> mode1, str |-> str2, next |-> "crash", n |-> 0]
      ELSE
        LET mode3 == IF kp = "=" /\ mode1 = INPUT_NORMAL THEN INPUT_ARITHMETIC ELSE mode1
            str3 == IF kp = "=" /\ mode1 = INPUT_NORMAL THEN <<>> ELSE str2
        IN  IF mode3 # INPUT_ARITHMETIC THEN
              [mode |-> mode3, str |-> str3, next |-> "done", n |-> 0]
            ELSE IF kp \in Digits \cup {"-"} THEN
              [mode |-> mode3, str |-> Append(str3, kp), next |-> "done", n |-> 0]
            ELSE IF kp = "=" THEN
              [mode |-> mode3, str |-> Append(str3, "+"), next |-> "done", n |-> 0]
            ELSE IF kp = ENTER THEN
              IF eval(str3)[1]
              THEN [mode |-> mode3, str |-> str3, next |-> "display", n |-> eval(str3)[2]]
              ELSE [mode |-> mode3, str |-> str3, next |-> "crash", n |-> 0]
            ELSE [mode |-> mode3, str |-> str3, next |-> "done", n |-> 0]

\* the keypress handler from line 436 to its end, or to the wait of
\* display_binary, for the key kp; before it the handler made the calls c for
\* the gesture or nudge back
FinishHandler(c, kp, back) ==
  LET o == ModeBlocks(kp)
  IN  IF o.next = "crash" THEN
        Outcome(c, "crashed", kp, o.mode, o.str, <<"none">>, "none", back)
      ELSE IF o.next = "display" /\ o.n >= 0 /\ o.n <= 31 THEN
        \* display_binary: make_palm, then the wait for all fingers to be up
        Outcome(c \o make_palm, "wait_open", kp, o.mode, o.str,
                <<"display_binary", o.n>>, "handler_end", <<"make_palm">>)
      ELSE IF o.next = "display" THEN
        \* display_binary returns at once; lines 449 or 468-469, and 472
        Outcome(c, "mqtt", "", INPUT_NORMAL,
                IF o.mode = INPUT_ARITHMETIC THEN <<>> ELSE o.str,
                <<"none">>, "none", <<"display_binary">>)
      ELSE Outcome(c, "mqtt", "", o.mode, o.str, <<"none">>, "none", back)

\* the keypress handler (lines 408-472) for the key kp, up to its end or to
\* the first wait of a blocking gesture
HandleKeypress(kp) ==
  CASE kp \in OpenKeys ->
         FinishHandler(<< <<KeyFinger(kp), FSubSigned(position[KeyFinger(kp)], FFromInt(10))>> >>,
                       kp, <<"nudge", kp>>)
    [] kp \in CloseKeys ->
         FinishHandler(<< <<KeyFinger(kp),
                            Signed(FALSE, FAdd(position[KeyFinger(kp)], FFromInt(10)))>> >>,
                       kp, <<"nudge", kp>>)
    [] kp \in {"1", "2", "3", "4", "5"} /\ input_mode = INPUT_NORMAL ->
         StartClearThumb(<<"make_number", IndexOf(number_keys, kp) + 1>>, "handler", kp)
    [] kp = "z" -> FinishHandler(make_palm, kp, <<"make_palm">>)
    [] kp = "x" -> StartClearThumb(<<"make_fist">>, "handler", kp)
    [] kp = "c" -> FinishHandler(make_call_me, kp, <<"make_call_me">>)
    [] kp = "v" -> StartClearThumb(<<"make_metal">>, "handler", kp)
    [] kp = "n" -> FinishHandler(make_casey_neistat_wave, kp, <<"make_casey_neistat_wave">>)
    [] kp = "m" -> FinishHandler(make_ripple_wave, kp, <<"make_ripple_wave">>)
    [] OTHER -> FinishHandler(<<>>, kp, <<>>)

\* the return of the blocking gesture in progress after its last calls c
Return(c) ==
  CASE ret = "startup" ->
         Outcome(c, "start_palm", keypress, input_mode, input_string,
                 <<"none">>, "none", <<gesture[1]>>)
    [] ret = "handler" -> FinishHandler(c, keypress, <<gesture[1]>>)
    [] ret = "handler_end" ->
         \* lines 449 or 468-469, and 472
         Outcome(c, "mqtt", "", INPUT_NORMAL,
                 IF input_mode = INPUT_ARITHMETIC THEN <<>> ELSE input_string,
                 <<"none">>, "none", <<gesture[1]>>)
    [] ret = "mqtt" ->
         Outcome(c, "update", keypress, input_mode, input_string,
                 <<"none">>, "none", <<gesture[1]>>)

\* program start: left_hand.make_fist() up to the wait of its clear_thumb
Startup ==
  /\ pc = "start"
  /\ \E o \in {StartClearThumb(<<"make_fist">>, "startup", keypress)} : Apply(o)
  /\ NoUpdate
  /\ UNCHANGED <<position, quit_flag, status, status_timeout, finished, ready,
                 inputs, phase, history, self_fingers, console, network>>

\* clear_thumb: one self.thumb.update() that applies a step
ClearThumbTick ==
  /\ pc = "clear_thumb"
  /\ queue["thumb"] # <<>>
  /\ UpdateJoints({"thumb"})
  /\ tick' = "thumb"
  /\ sent' = <<>>
  /\ expired' = FALSE
  /\ returned' = <<>>
  /\ UNCHANGED <<pc, gesture, ret, keypress, input_mode, input_string, quit_flag,
                 status, status_timeout, finished, ready, inputs, phase,
                 history, self_fingers, console, network>>

\* the calls of a blocking gesture between its clear_thumb and its end
AfterClearThumb(g) ==
  CASE g[1] = "make_fist" -> make_fist_fingers
    [] g[1] = "make_metal" -> make_metal_fingers
    [] g[1] = "make_number" /\ g[2] < 5 -> make_number_fingers(g[2])
    [] g[1] = "make_number" /\ g[2] >= 5 ->
         make_number_fingers(g[2]) \o <<open_finger("thumb")>>

\* clear_thumb: self.thumb.update() returns True; the gesture goes on to its
\* finger calls and then either returns or enters the wait of close_thumb
ClearThumbDone ==
  /\ pc = "clear_thumb"
  /\ queue["thumb"] = <<>>
  /\ \E o \in { IF gesture[1] = "make_number" /\ gesture[2] >= 5
                THEN Return(AfterClearThumb(gesture))
                ELSE Outcome(AfterClearThumb(gesture), "close_thumb", keypress,
                             input_mode, input_string, gesture, ret, <<>>) } : Apply(o)
  /\ tick' = "thumb"
  /\ sent' = <<>>
  /\ expired' = FALSE
  /\ UNCHANGED <<position, quit_flag, status, status_timeout, finished, ready,
                 inputs, phase, history, self_fingers, console, network>>

\* Hand.update (lines 129-137) when some finger's queue is not empty: every
\* finger's Joint.update, then show_positions; it returns False
HandUpdateBusy ==
  /\ ~HandReady
  /\ UpdateJoints(Fingers)
  /\ ready' = FALSE

\* Hand.update when every finger's queue is empty: it returns True
HandUpdateReady ==
  /\ HandReady
  /\ UNCHANGED position
  /\ ready' = TRUE

\* close_thumb: one self.update() that returns False
CloseThumbTick ==
  /\ pc = "close_thumb"
  /\ HandUpdateBusy
  /\ tick' = "gesture"
  /\ sent' = <<TELEMETRY>>
  /\ expired' = FALSE
  /\ returned' = <<>>
  /\ UNCHANGED <<pc, gesture, ret, keypress, input_mode, input_string, quit_flag,
                 status, status_timeout, finished, inputs, phase, history,
                 self_fingers, console, network>>

\* close_thumb, but without its wait
CloseThumbDone_without_wait ==
  /\ pc = "close_thumb"
  /\ UNCHANGED <<position, ready>>
  /\ \E o \in {Return(close_thumb_end)} : Apply(o)
  /\ tick' = "gesture"
  /\ sent' = <<>>
  /\ expired' = FALSE
  /\ UNCHANGED <<quit_flag, status, status_timeout, finished, inputs, phase,
                 history, self_fingers, console, network>>

\* close_thumb: self.update() returns True, the thumb gets its close target
\* and the gesture returns
CloseThumbDone ==
  /\ pc = "close_thumb"
  /\ HandUpdateReady
  /\ \E o \in {Return(close_thumb_end)} : Apply(o)
  /\ tick' = "gesture"
  /\ sent' = <<>>
  /\ expired' = FALSE
  /\ UNCHANGED <<quit_flag, status, status_timeout, finished, inputs, phase,
                 history, self_fingers, console, network>>

\* program start: left_hand.make_palm() and the initialisations of lines 373-387
StartupPalm ==
  /\ pc = "start_palm"
  /\ \E o \in {Outcome(make_palm, "loop", "", INPUT_NORMAL, input_string,
                       <<"none">>, "none", <<"make_palm">>)} : Apply(o)
  /\ NoUpdate
  /\ UNCHANGED <<position, quit_flag, status, status_timeout, finished, ready,
                 inputs, phase, history, self_fingers, console, network>>

\* display_binary: one self.update() of its wait that returns False
WaitOpenTick ==
  /\ pc = "wait_open"
  /\ HandUpdateBusy
  /\ tick' = "gesture"
  /\ sent' = <<TELEMETRY>>
  /\ expired' = FALSE
  /\ returned' = <<>>
  /\ UNCHANGED <<pc, gesture, ret, keypress, input_mode, input_string, quit_flag,
                 status, status_timeout, finished, inputs, phase, history,
                 self_fingers, console, network>>

\* display_binary, but giving every finger the target of its bit without
\* waiting for self.update() to return True
WaitOpenDone_without_wait ==
  /\ pc = "wait_open"
  /\ UNCHANGED position
  /\ ready' = TRUE
  /\ \E o \in {Return(display_binary_bits(gesture[2]))} : Apply(o)
  /\ tick' = "gesture"
  /\ sent' = <<>>
  /\ expired' = FALSE
  /\ UNCHANGED <<quit_flag, status, status_timeout, finished, inputs, phase,
                 history>>
  /\ self_fingers' = fingers_after_display_binary(self_fingers)
  /\ UNCHANGED <<console, network>>

\* display_binary: self.update() returns True, every finger gets the target
\* of its bit and display_binary returns
WaitOpenDone ==
  /\ pc = "wait_open"
  /\ HandUpdateReady
  /\ \E o \in {Return(display_binary_bits(gesture[2]))} : Apply(o)
  /\ tick' = "gesture"
  /\ sent' = <<>>
  /\ expired' = FALSE
  /\ UNCHANGED <<quit_flag, status, status_timeout, finished, inputs, phase,
                 history>>
  /\ self_fingers' = fingers_after_display_binary(self_fingers)
  /\ UNCHANGED <<console, network>>

\* on_message, but taking every word that is not a gesture for a key press
on_message_without_length_test(m) ==
  LET words == m[2]
      command_word == words[2]
      stay(p, kp) == Outcome(<<>>, p, kp, input_mode, input_string, <<"none">>, "none", <<>>)
  IN  IF m[1] # COMMAND_TOPIC THEN stay("update", keypress)
      ELSE IF Len(words) < 2 THEN stay("crashed", keypress)
      ELSE IF command_word = "PALM" THEN
        Outcome(make_palm, "update", keypress, input_mode, input_string,
                <<"none">>, "none", <<"make_palm">>)
      ELSE IF command_word = "FIST" THEN StartClearThumb(<<"make_fist">>, "mqtt", keypress)
      ELSE IF command_word = "CALL_ME" THEN
        Outcome(make_call_me, "update", keypress, input_mode, input_string,
                <<"none">>, "none", <<"make_call_me">>)
      ELSE IF command_word = "METAL" THEN StartClearThumb(<<"make_metal">>, "mqtt", keypress)
      ELSE stay("update", command_word)

\* on_message (lines 314-336) for the message m, up to its end or to the first
\* wait of a blocking gesture
on_message(m) ==
  LET words == m[2]
      command_word == words[2]
      stay(p, kp) == Outcome(<<>>, p, kp, input_mode, input_string, <<"none">>, "none", <<>>)
  IN  IF m[1] # COMMAND_TOPIC THEN stay("update", keypress)
      ELSE IF Len(words) < 2 THEN
        \* text.split(":")[1] raises IndexError
        stay("crashed", keypress)
      ELSE IF command_word = "PALM" THEN
        Outcome(make_palm, "update", keypress, input_mode, input_string,
                <<"none">>, "none", <<"make_palm">>)
      ELSE IF command_word = "FIST" THEN StartClearThumb(<<"make_fist">>, "mqtt", keypress)
      ELSE IF command_word = "CALL_ME" THEN
        Outcome(make_call_me, "update", keypress, input_mode, input_string,
                <<"none">>, "none", <<"make_call_me">>)
      ELSE IF command_word = "METAL" THEN StartClearThumb(<<"make_metal">>, "mqtt", keypress)
      ELSE IF Len(command_word) = 1 THEN stay("update", command_word)
      ELSE stay("update", keypress)

\* a key event, but also taken and handled inside the waits of the gestures
KeyEvent_inside_waits(keys, max) ==
  /\ pc \in {"loop", "clear_thumb", "close_thumb", "wait_open"}
  /\ inputs < max
  /\ \E k \in keys :
       /\ finished' = (finished \/ (quit_flag /\ k = "y"))
       /\ quit_flag' = (k = ESCAPE)
       /\ \E o \in {HandleKeypress(k)} : Apply(o)
       /\ history' = Append(history, <<"key", k>>)
  /\ inputs' = inputs + 1
  /\ NoUpdate
  /\ UNCHANGED <<position, status, status_timeout, ready, phase,
                 self_fingers, console, network>>

\* the top of a main-loop iteration with a local key event (lines 391-404),
\* and the keypress handler for it
KeyEvent(keys, max) ==
  /\ pc = "loop"
  /\ inputs < max
  /\ phase = 0 \/ keypress # ""
  /\ \E k \in keys :
       /\ finished' = (finished \/ (quit_flag /\ k = "y"))
       /\ quit_flag' = (k = ESCAPE)
       /\ \E o \in {HandleKeypress(k)} : Apply(o)
       /\ history' = Append(history, <<"key", k>>)
  /\ inputs' = inputs + 1
  /\ NoUpdate
  /\ UNCHANGED <<position, status, status_timeout, ready, phase,
                 self_fingers, console, network>>

\* the top of a main-loop iteration without a key event while the mailbox
\* holds a key received by on_message: the keypress handler for that key
MailboxKey ==
  /\ pc = "loop"
  /\ keypress # ""
  /\ \E o \in {HandleKeypress(keypress)} : Apply(o)
  /\ NoUpdate
  /\ UNCHANGED <<position, quit_flag, status, status_timeout, finished, ready,
                 inputs, phase, history, self_fingers, console, network>>

\* cyberdeck.loop (line 476) dispatching one message to on_message; at "loop"
\* there was no key event and the mailbox is empty
Dispatch(msgs, max) ==
  /\ pc = "mqtt" \/ (pc = "loop" /\ keypress = "")
  /\ inputs < max
  /\ phase = 0
  /\ \E m \in msgs :
       /\ \E o \in {on_message(m)} : Apply(o)
       /\ history' = Append(history, <<"message", m>>)
  /\ inputs' = inputs + 1
  /\ NoUpdate
  /\ UNCHANGED <<position, quit_flag, status, status_timeout, finished, ready, phase,
                 self_fingers>>

\* a message from outside the model: the console and the broker's queues are
\* left alone
Message(msgs, max) ==
  /\ Dispatch(msgs, max)
  /\ UNCHANGED <<console, network>>

\* the Hand methods a caller can invoke, with their arguments
Gestures ==
  {<<"make_palm">>, <<"make_fist">>, <<"make_call_me">>, <<"make_metal">>,
   <<"make_casey_neistat_wave">>, <<"make_ripple_wave">>}
  \cup {<<"make_number", n>> : n \in 0..5}
  \cup {<<"display_binary", n>> : n \in -1..32}

\* the call of the Hand method g, but with make_call_me clearing the thumb
\* first, the way make_number does
Invoke_call_me_clearing_thumb(g) ==
  LET done(c) == Outcome(c, "update", keypress, input_mode, input_string,
                         <<"none">>, "none", <<g[1]>>)
  IN  CASE g[1] \in {"make_fist", "make_metal", "make_number"} ->
             StartClearThumb(g, "mqtt", keypress)
        [] g[1] = "display_binary" /\ g[2] >= 0 /\ g[2] <= 31 ->
             Outcome(make_palm, "wait_open", keypress, input_mode, input_string,
                     g, "mqtt", <<"make_palm">>)
        [] g[1] = "display_binary" /\ ~(g[2] >= 0 /\ g[2] <= 31) -> done(<<>>)
        [] g[1] = "make_palm" -> done(make_palm)
        [] g[1] = "make_call_me" -> StartClearThumb(<<"make_number", 5>>, "mqtt", keypress)
        [] g[1] = "make_casey_neistat_wave" -> done(make_casey_neistat_wave)
        [] g[1] = "make_ripple_wave" -> done(make_ripple_wave)

\* the call of the Hand method g from within cyberdeck.loop, the way
\* on_message calls make_palm or make_fist, up to its return or to its first wait
Invoke(g) ==
  LET done(c) == Outcome(c, "update", keypress, input_mode, input_string,
                         <<"none">>, "none", <<g[1]>>)
  IN  CASE g[1] \in {"make_fist", "make_metal", "make_number"} ->
             StartClearThumb(g, "mqtt", keypress)
        [] g[1] = "display_binary" /\ g[2] >= 0 /\ g[2] <= 31 ->
             Outcome(make_palm, "wait_open", keypress, input_mode, input_string,
                     g, "mqtt", <<"make_palm">>)
        [] g[1] = "display_binary" /\ ~(g[2] >= 0 /\ g[2] <= 31) -> done(<<>>)
        [] g[1] = "make_palm" -> done(make_palm)
        [] g[1] = "make_call_me" -> done(make_call_me)
        [] g[1] = "make_casey_neistat_wave" -> done(make_casey_neistat_wave)
        [] g[1] = "make_ripple_wave" -> done(make_ripple_wave)

\* a caller invokes one Hand method in place of a message
Call(gs, max) ==
  /\ pc = "mqtt" \/ (pc = "loop" /\ keypress = "")
  /\ inputs < max
  /\ phase = 0
  /\ \E g \in gs :
       /\ \E o \in {Invoke(g)} : Apply(o)
       /\ history' = Append(history, <<"call", g>>)
  /\ inputs' = inputs + 1
  /\ NoUpdate
  /\ UNCHANGED <<position, quit_flag, status, status_timeout, finished, ready, phase,
                 self_fingers, console, network>>

\* the caller invokes the method that has just returned once more, at once
CallAgain ==
  /\ pc = "update"
  /\ returned # <<>>
  /\ history # <<>>
  /\ history[Len(history)][1] = "call"
  /\ IF Len(history) = 1 THEN TRUE
     ELSE history[Len(history) - 1] # history[Len(history)]
  /\ \E o \in {Invoke(history[Len(history)][2])} : Apply(o)
  /\ history' = Append(history, history[Len(history)])
  /\ NoUpdate
  /\ UNCHANGED <<position, quit_flag, status, status_timeout, finished, ready,
                 inputs, phase, self_fingers, console, network>>

\* the status line, but without the periodic re-announcement
StatusLines_on_change_only(st, timer) ==
  IF st # status
  THEN <<IF st THEN STATUS_READY ELSE STATUS_BUSY>>
  ELSE <<>>

\* the status line, but with the two texts exchanged
StatusLines_exchanged(st, timer) ==
  IF st # status \/ timer
  THEN <<IF st THEN STATUS_BUSY ELSE STATUS_READY>>
  ELSE <<>>

\* the status line of lines 482-487, for the new status st and the timer test
StatusLines(st, timer) ==
  IF st # status \/ timer
  THEN <<IF st THEN STATUS_READY ELSE STATUS_BUSY>>
  ELSE <<>>

\* the end of a main-loop iteration (lines 477-487): Hand.update and the
\* status report; at "loop" and "mqtt" nothing arrived before it
UpdateAndReport ==
  /\ pc = "update" \/ pc = "mqtt" \/ (pc = "loop" /\ keypress = "")
  /\ \/ HandUpdateBusy
     \/ HandUpdateReady /\ UNCHANGED queue
  /\ tick' = "main"
  /\ status' = ready'
  /\ expired' \in (IF status_timeout = "start" THEN {TRUE} ELSE BOOLEAN)
  /\ sent' = (IF ready' THEN <<>> ELSE <<TELEMETRY>>) \o StatusLines(status', expired')
  /\ status_timeout' = IF StatusLines(status', expired') # <<>> THEN "armed"
                       ELSE status_timeout
  /\ pc' = IF finished THEN "done" ELSE "loop"
  /\ phase' = (phase + 1) % InputStride
  /\ returned' = <<>>
  /\ UNCHANGED <<gesture, ret, keypress, input_mode, input_string, quit_flag,
                 finished, inputs, history, self_fingers>>

\* the end of a main-loop iteration with the status lines going nowhere
MainTick ==
  /\ UpdateAndReport
  /\ UNCHANGED <<console, network>>

\* the program with an environment that presses any key and sends any message
Next ==
  \/ Startup
  \/ ClearThumbTick
  \/ ClearThumbDone
  \/ CloseThumbTick
  \/ CloseThumbDone
  \/ StartupPalm
  \/ KeyEvent(LocalKeys, MaxInputs)
  \/ MailboxKey
  \/ Message(Messages, MaxInputs)
  \/ MainTick

Spec == Init /\ [][Next]_vars

\* the messages of the typing environment
TypingMessages == { Msg(COMMAND_TOPIC, <<"COMMAND", "FIST">>) }

\* the program with an environment that types arithmetic
NextTyping ==
  \/ Startup
  \/ ClearThumbTick
  \/ ClearThumbDone
  \/ CloseThumbTick
  \/ CloseThumbDone
  \/ StartupPalm
  \/ WaitOpenTick
  \/ WaitOpenDone
  \/ KeyEvent(TypingKeys, MaxTyped)
  \/ Message(TypingMessages, MaxTyped)
  \/ MainTick

SpecTyping == Init /\ [][NextTyping]_vars

\* the program with a caller that invokes the Hand methods directly
NextCalls ==
  \/ Startup
  \/ ClearThumbTick
  \/ ClearThumbDone
  \/ CloseThumbTick
  \/ CloseThumbDone
  \/ StartupPalm
  \/ WaitOpenTick
  \/ WaitOpenDone
  \/ Call(Gestures, MaxCalls)
  \/ CallAgain
  \/ MainTick

SpecCalls == Init /\ [][NextCalls]_vars

\* the keys and the messages of the environment with remote key presses
RemoteKeys == {"a", "k"}

RemoteMessages == { Msg(COMMAND_TOPIC, <<"COMMAND", w>>) : w \in {"q", "c"} }

\* the program with an environment that sends key presses and presses keys
NextRemote ==
  \/ Startup
  \/ ClearThumbTick
  \/ ClearThumbDone
  \/ CloseThumbTick
  \/ CloseThumbDone
  \/ StartupPalm
  \/ KeyEvent(RemoteKeys, MaxRemote)
  \/ MailboxKey
  \/ Message(RemoteMessages, MaxRemote)
  \/ MainTick

SpecRemote == Init /\ [][NextRemote]_vars

\* the steps the program takes by itself: it runs on whenever it can
Progress ==
  \/ Startup
  \/ ClearThumbTick
  \/ ClearThumbDone
  \/ CloseThumbTick
  \/ CloseThumbDone
  \/ StartupPalm
  \/ MailboxKey
  \/ MainTick

\* the program with any key and any message, running on whenever it can
SpecLive == Init /\ [][Next]_vars /\ WF_vars(Progress)

\* One iteration of the console's main loop. With a client it sends the key
\* or the button's command, which locks the buttons, and dispatches what has
\* arrived, where a READY line unlocks them; without one, and past the timer,
\* it calls connect_to_broker() and resets the timer if that returned None.
ConsoleLoop ==
  /\ IF telemetry
       THEN /\ \E event \in {"none", "command", "status:READY"} :
                 enabled' = CASE event = "none" -> enabled
                              [] event = "command" -> FALSE
                              [] event = "status:READY" -> TRUE
            /\ UNCHANGED <<telemetry, reconnect>>
       ELSE IF MQTT_ENABLED /\ now > reconnect
         THEN \E c \in {connect_to_broker(FALSE)} :
                /\ telemetry' = c.client
                /\ enabled' = c.buttons
                /\ reconnect' = IF c.client THEN reconnect
                                ELSE now + RECONNECT_RETRY
         ELSE UNCHANGED <<telemetry, reconnect, enabled>>
  /\ UNCHANGED <<now, reachable, hand_node, network>>

\* a second passes; past MaxTime the origin of the clock moves on with it,
\* which leaves every comparison of the clock with the timer as it is
Second ==
  /\ IF now < MaxTime
       THEN now' = now + 1 /\ UNCHANGED reconnect
       ELSE now' = now /\ reconnect' = (IF reconnect > 0 THEN reconnect - 1 ELSE 0)
  /\ UNCHANGED <<telemetry, enabled, reachable, hand_node, network>>

\* the broker becomes reachable
BrokerUp ==
  /\ ~reachable
  /\ reachable' = TRUE
  /\ UNCHANGED <<telemetry, reconnect, enabled, now, hand_node, network>>

NextConsole ==
  \/ ConsoleLoop
  \/ Second
  \/ BrokerUp

\* the console from its start, with the broker reachable or not; the loop
\* keeps running and time keeps passing
InitConsole == HandInit /\ ConsoleStart(BOOLEAN)

SpecConsole ==
  /\ InitConsole
  /\ [][NextConsole]_vars
  /\ WF_vars(ConsoleLoop)
  /\ WF_vars(Second)

\* the command words of the console's four buttons
ButtonWords == {"PALM", "FIST", "CALL_ME", "METAL"}

\* the console: check_events finds an enabled button clicked; its handler
\* calls send_command, which publishes the command and locks the buttons
ButtonClick ==
  /\ telemetry
  /\ enabled
  /\ Len(to_hand) + inputs < MaxCommands
  /\ \E w \in ButtonWords :
       to_hand' = Append(to_hand, Msg(COMMAND_TOPIC, <<"COMMAND", w>>))
  /\ enabled' = FALSE
  /\ UNCHANGED <<telemetry, reconnect, now, reachable, to_console, hand_node>>

\* the console: telemetry.loop dispatches a status line to on_message, which
\* unlocks the buttons on status:READY and does nothing on status:BUSY
ConsoleDispatch ==
  /\ telemetry
  /\ to_console # <<>>
  /\ enabled' = IF Head(to_console) = STATUS_READY THEN TRUE ELSE enabled
  /\ to_console' = Tail(to_console)
  /\ UNCHANGED <<telemetry, reconnect, now, reachable, to_hand, hand_node>>

\* the hand: cyberdeck.loop dispatches the oldest command of the console
HandDispatch ==
  /\ to_hand # <<>>
  /\ Dispatch({Head(to_hand)}, MaxCommands)
  /\ to_hand' = Tail(to_hand)
  /\ UNCHANGED <<console, to_console>>

\* the hand: the end of a main-loop iteration, its status lines on their way
\* to the console
PublishingTick ==
  /\ Len(to_console) < MaxInFlight
  /\ UpdateAndReport
  /\ to_console' = to_console \o StatusLines(status', expired')
  /\ UNCHANGED <<console, to_hand>>

\* the hand and the console, each at its own pace, with the broker between
NextSystem ==
  \/ Startup
  \/ ClearThumbTick
  \/ ClearThumbDone
  \/ CloseThumbTick
  \/ CloseThumbDone
  \/ StartupPalm
  \/ HandDispatch
  \/ PublishingTick
  \/ ButtonClick
  \/ ConsoleDispatch

SpecSystem == Init /\ [][NextSystem]_vars

\* the positions get_flexion is applied to: for each joint, FlexionSamples + 1
\* values from min_pos to max_pos in equal steps, as floats
SamplePositions ==
  [k \in 0..FlexionSamples |->
     [j \in Joints |->
        FAdd(FFromInt(min_pos[j]),
             FDivInt(FFromInt((max_pos[j] - min_pos[j]) * k), FlexionSamples))]]

\* the joints stand at the next sample and show_positions reads the flexion
\* of each
Flex ==
  /\ \E k \in 0..(FlexionSamples - 1) :
       /\ position = SamplePositions[k]
       /\ position' = SamplePositions[k + 1]
  /\ sent' = <<TELEMETRY>>
  /\ UNCHANGED <<queue, pc, gesture, ret, keypress, input_mode, input_string,
                 quit_flag, status, status_timeout, finished, expired, ready,
                 tick, returned, inputs, phase, history, self_fingers, console, network>>

NextFlexion == Flex

\* the joints stand at any of the samples
InitFlexion ==
  /\ \E k \in 0..FlexionSamples : position = SamplePositions[k]
  /\ HandIdle /\ ConsoleStart({TRUE})

\* get_flexion over the samples of each joint's calibration, in rising order
SpecFlexion == InitFlexion /\ [][NextFlexion]_vars

\* the whole positions get_flexion is applied to: every joint d degrees
\* above its min_pos, or at its max_pos where that is nearer
DegreePositions ==
  [d \in 0..(max_pos["wrist"] - min_pos["wrist"]) |->
     [j \in Joints |->
        FFromInt(IF min_pos[j] + d < max_pos[j] THEN min_pos[j] + d ELSE max_pos[j])]]

\* the joints stand one degree further and show_positions reads the flexion
\* of each
FlexDegree ==
  /\ \E d \in 0..(max_pos["wrist"] - min_pos["wrist"] - 1) :
       /\ position = DegreePositions[d]
       /\ position' = DegreePositions[d + 1]
  /\ sent' = <<TELEMETRY>>
  /\ UNCHANGED <<queue, pc, gesture, ret, keypress, input_mode, input_string,
                 quit_flag, status, status_timeout, finished, expired, ready,
                 tick, returned, inputs, phase, history, self_fingers, console, network>>

NextDegrees == FlexDegree

\* the joints stand at their min_pos
InitDegrees ==
  /\ position = DegreePositions[0]
  /\ HandIdle /\ ConsoleStart({TRUE})

\* get_flexion over the whole degrees of each joint's calibration
SpecDegrees == InitDegrees /\ [][NextDegrees]_vars

-----------------------------------------------------------------------------
\* Properties

\* the value v lies within the calibration of joint j
InCalibration(j, v) ==
  ~FLess(v, FFromInt(min_pos[j])) /\ ~FLess(FFromInt(max_pos[j]), v)

\* in this step joint j's Joint.update takes a value from its queue
Popped(j) == queue[j] # <<>> /\ queue'[j] = Tail(queue[j])

\* in this step joint j's queue keeps its pending values, in their order
IsPrefix(a, b) == Len(a) <= Len(b) /\ SubSeq(b, 1, Len(a)) = a

\* the values this step appends to joint j's queue
Appended(j) == SubSeq(queue'[j], Len(queue[j]) + 1, Len(queue'[j]))

\* the status lines among the lines published
StatusOf(lines) == SelectSeq(lines, LAMBDA l : l \in {STATUS_READY, STATUS_BUSY})

TelemetrySent(lines) == \E i \in DOMAIN lines : lines[i] = TELEMETRY

\* C1: whenever Joint.update applies a step, the joint's new position lies
\* within [min_pos, max_pos] of that joint.
C1_PositionWithinCalibration ==
  [][\A j \in Joints : Popped(j) => InCalibration(j, position'[j])]_vars

\* C2: in make_fist and make_metal the thumb's close target is enqueued only
\* when the queues of index, middle, ring and pinkie are empty.
C2_ThumbClosesAfterFingersDrain ==
  [][(/\ pc = "close_thumb"
      /\ gesture[1] \in {"make_fist", "make_metal"}
      /\ Len(queue'["thumb"]) > Len(queue["thumb"]))
     => \A i \in DOMAIN fingers_not_thumb : queue[fingers_not_thumb[i]] = <<>>]_vars

\* C2: make_metal, invoked while the startup moves were pending, has returned
\* with the thumb's close target enqueued.
C2_Witness ==
  /\ returned = <<"make_metal">>
  /\ inputs = 1
  /\ Len(queue["thumb"]) = num_steps
  /\ position["thumb"] = FFromInt(70)

C4_QueueIsFifo ==
  [][\A j \in Joints :
       \/ Popped(j) /\ position'[j] = Head(queue[j])
       \/ IsPrefix(queue[j], queue'[j]) /\ position'[j] = position[j]]_vars

\* C4: a move was enqueued behind a pending one and the joint is still
\* working through the earlier move.
C4_Witness ==
  /\ tick = "main"
  /\ Len(queue["index"]) > num_steps
  /\ Len(queue["index"]) < 2 * num_steps
  /\ inputs = 1

\* C5: a telemetry line is published in exactly the steps in which some joint
\* applies a value from its queue.
C5_TelemetryFollowsMotion ==
  [][(\E j \in Joints : Popped(j)) <=> TelemetrySent(sent')]_vars

\* C6: a main-loop iteration publishes a status line exactly when its
\* Hand.update result differs from the previous iteration's or the timer has
\* expired; the line is READY for True and BUSY for False, and publishing it
\* re-arms the timer.
C6_StatusLine ==
  [][tick' = "main" =>
       /\ status' = ready'
       /\ StatusOf(sent') = IF ready' # status \/ expired'
                            THEN <<IF ready' THEN STATUS_READY ELSE STATUS_BUSY>>
                            ELSE <<>>
       /\ status_timeout' = IF StatusOf(sent') # <<>> THEN "armed" ELSE status_timeout]_vars

\* C6: a BUSY line was published again because the timer expired, the status
\* having changed two iterations before.
C6_Witness ==
  /\ tick = "main"
  /\ expired
  /\ sent = <<TELEMETRY, STATUS_BUSY>>
  /\ phase = 3
  /\ inputs = 0

\* C7: a READY line is published only by a step that found every finger's
\* queue empty, at most one per step, and exactly one by the main-loop
\* iteration that finds the queues empty after a busy one; an iteration that
\* finds a queue not empty leaves the status busy.
C7_ReadyOnlyWhenDrained ==
  [][/\ Len(SelectSeq(sent', LAMBDA l : l = STATUS_READY)) <= 1
     /\ (\E i \in DOMAIN sent' : sent'[i] = STATUS_READY) => HandReady /\ HandReady'
     /\ (tick' = "main" /\ ~HandReady) => ~status'
     /\ (tick' = "main" /\ HandReady /\ ~status) => StatusOf(sent') = <<STATUS_READY>>]_vars

\* C7: the READY line of the iteration that found the queues empty after a
\* gesture that closed the index finger.
C7_Witness ==
  /\ sent = <<STATUS_READY>>
  /\ ~expired
  /\ inputs = 1
  /\ position["index"] = FFromInt(max_pos["index"])

\* C8: a gesture or a nudge leaves some joint's queue not empty when it returns.
C8_InvocationLeavesQueuePending ==
  returned # <<>> => \E j \in Joints : queue[j] # <<>>

\* C9: every flexion percentage of a telemetry line is within 0..100.
C9_FlexionIsPercentage ==
  TelemetrySent(sent) => \A j \in Joints : get_flexion(j, position[j]) \in 0..100

\* C10: a nudge that requests an angle outside [min_pos, max_pos] raises no
\* error and appends num_steps values, all within [min_pos, max_pos], the
\* last of them the nearest bound.
C10_OutOfRangeAngleClamps ==
  [][\A k \in OpenKeys \cup CloseKeys :
       LET j == KeyFinger(k)
           down == FSubSigned(position[j], FFromInt(10))
           below == k \in OpenKeys
                    /\ (down[1] \/ FLess(down[2], FFromInt(min_pos[j])))
           above == k \in CloseKeys
                    /\ FLess(FFromInt(max_pos[j]), FAdd(position[j], FFromInt(10)))
       IN  (returned' = <<"nudge", k>> /\ (below \/ above)) =>
             /\ pc' # "crashed"
             /\ Len(Appended(j)) = num_steps
             /\ Appended(j)[num_steps] = FFromInt(IF below THEN min_pos[j] ELSE max_pos[j])
             /\ \A i \in 1..num_steps : InCalibration(j, Appended(j)[i])]_vars

\* a <= b
FLeq(a, b) == ~FLess(b, a)

\* the angle the nudge key k requests of its finger
NudgeAngle(k) ==
  IF k \in OpenKeys THEN FSubSigned(position[KeyFinger(k)], FFromInt(10))
  ELSE Signed(FALSE, FAdd(position[KeyFinger(k)], FFromInt(10)))

\* the values s run from their first to their last without turning back
Monotone(s) ==
  \A i \in 1..(Len(s) - 1) :
    IF FLeq(s[1], s[Len(s)]) THEN FLeq(s[i], s[i + 1]) ELSE FLeq(s[i + 1], s[i])

\* every value of s lies between the first and the last
Between(s) ==
  \A i \in 1..Len(s) :
    \/ FLeq(s[1], s[i]) /\ FLeq(s[i], s[Len(s)])
    \/ FLeq(s[Len(s)], s[i]) /\ FLeq(s[i], s[1])

\* C11: the set_servo_angle call of a nudge appends exactly num_steps values:
\* the first is the joint's position at the call, the last is the clamped
\* target, and the values are monotone and lie between the two.
C11_SegmentIsMonotoneRamp ==
  [][\A k \in OpenKeys \cup CloseKeys :
       returned' = <<"nudge", k>> =>
         /\ Len(Appended(KeyFinger(k))) = num_steps
         /\ Appended(KeyFinger(k))[1] = position[KeyFinger(k)]
         /\ Appended(KeyFinger(k))[num_steps] = ClampTarget(KeyFinger(k), NudgeAngle(k))
         /\ Monotone(Appended(KeyFinger(k)))
         /\ Between(Appended(KeyFinger(k)))]_vars

\* C12: a set_servo_angle call on a joint whose queue is not empty appends a
\* segment that starts at the last pending value, so the applied values have
\* no jump between two chained moves.
C12_SegmentContinuesQueue ==
  [][\A j \in Joints :
       (queue[j] # <<>> /\ Appended(j) # <<>>) =>
         Appended(j)[1] = queue[j][Len(queue[j])]]_vars

\* the last value of a sequence of pending values
Last(s) == s[Len(s)]

\* C13: make_number(n), n in 0..5, queues an open target (min_pos) for the
\* non-thumb fingers at places < n of index, middle, ring, pinkie and a close
\* target (max_pos) for the others; the thumb's last target is its min_pos for
\* n >= 5 and the close angle of close_thumb (120) otherwise, and for n < 5
\* the fingers have reached their targets when make_number returns.
C13_MakeNumberTargets ==
  [][\A n \in 0..5 : gesture = <<"make_number", n>> =>
       /\ (pc = "clear_thumb" /\ pc' # "clear_thumb") =>
            /\ \A i \in 1..4 :
                 Last(queue'[fingers_not_thumb[i]]) =
                   FFromInt(IF i - 1 < n THEN min_pos[fingers_not_thumb[i]]
                            ELSE max_pos[fingers_not_thumb[i]])
            /\ n >= 5 => /\ returned' = <<"make_number">>
                         /\ Last(queue'["thumb"]) = FFromInt(min_pos["thumb"])
            /\ n < 5 => pc' = "close_thumb"
       /\ (pc = "close_thumb" /\ pc' # "close_thumb") =>
            /\ returned' = <<"make_number">>
            /\ Last(queue'["thumb"]) = FFromInt(120)
            /\ \A i \in 1..4 :
                 position'[fingers_not_thumb[i]] =
                   FFromInt(IF i - 1 < n THEN min_pos[fingers_not_thumb[i]]
                            ELSE max_pos[fingers_not_thumb[i]])]_vars

\* C13: make_number(2) has returned: index and middle are open, ring and
\* pinkie closed, and the thumb's close target is pending.
C13_Witness ==
  /\ returned = <<"make_number">>
  /\ history = << <<"call", <<"make_number", 2>>>> >>
  /\ position["middle"] = FFromInt(min_pos["middle"])
  /\ position["ring"] = FFromInt(max_pos["ring"])
  /\ Len(queue["thumb"]) = num_steps

\* the fingers of bits 0 to 3
BitFingers == <<"pinkie", "ring", "middle", "index">>

\* C14: when display_binary(n), n in 0..31, returns, the last target queued
\* for pinkie, ring, middle and index is min_pos if bit 0, 1, 2, 3 of n is 1
\* and max_pos if it is 0.
C14_BinaryBitsOnFingers ==
  [][\A n \in 0..31 :
       (gesture = <<"display_binary", n>> /\ pc = "wait_open" /\ pc' # "wait_open") =>
         /\ returned' = <<"display_binary">>
         /\ \A i \in 0..3 :
              Last(queue'[BitFingers[i + 1]]) =
                FFromInt(IF (n \div 2^i) % 2 = 1 THEN min_pos[BitFingers[i + 1]]
                         ELSE max_pos[BitFingers[i + 1]])]_vars

\* C14: display_binary(5) has returned with open targets for pinkie and
\* middle and close targets for ring and index.
C14_Witness ==
  /\ returned = <<"display_binary">>
  /\ history = << <<"call", <<"display_binary", 5>>>> >>
  /\ Last(queue["pinkie"]) = FFromInt(min_pos["pinkie"])
  /\ Last(queue["ring"]) = FFromInt(max_pos["ring"])
  /\ Last(queue["middle"]) = FFromInt(min_pos["middle"])
  /\ Last(queue["index"]) = FFromInt(max_pos["index"])

\* C15: from its call to its return display_binary(n), n in 0..31, enqueues
\* nothing on the thumb and leaves the thumb's position and queue as they are.
C15_BinaryLeavesThumb ==
  [][\A n \in 0..31 :
       (gesture' = <<"display_binary", n>> \/ gesture = <<"display_binary", n>>) =>
         /\ queue'["thumb"] = queue["thumb"]
         /\ position'["thumb"] = position["thumb"]]_vars

\* C15, amended: display_binary(n), n in 0..31, uses the thumb as bit 4: its
\* make_palm enqueues an open move of the thumb, its wait applies every
\* pending value of the thumb, and after the wait it enqueues num_steps values
\* that end at min_pos if bit 4 of n is 1 and at max_pos if it is 0.
C15_BinaryThumbIsBitFour ==
  [][\A n \in 0..31 :
       /\ (gesture' = <<"display_binary", n>> /\ pc # "wait_open") =>
            /\ Len(Appended("thumb")) = num_steps
            /\ Last(queue'["thumb"]) = FFromInt(min_pos["thumb"])
       /\ (gesture = <<"display_binary", n>> /\ pc' # "wait_open") =>
            /\ returned' = <<"display_binary">>
            /\ queue["thumb"] = <<>>
            /\ position'["thumb"] = FFromInt(min_pos["thumb"])
            /\ Len(queue'["thumb"]) = num_steps
            /\ Last(queue'["thumb"]) =
                 FFromInt(IF (n \div 16) % 2 = 1 THEN min_pos["thumb"]
                          ELSE max_pos["thumb"])]_vars

\* C15: display_binary(21) has returned with an open target for the thumb
\* behind a thumb that its wait has brought to min_pos.
C15_Witness ==
  /\ returned = <<"display_binary">>
  /\ history = << <<"call", <<"display_binary", 21>>>> >>
  /\ position["thumb"] = FFromInt(min_pos["thumb"])
  /\ Len(queue["thumb"]) = num_steps
  /\ Last(queue["thumb"]) = FFromInt(min_pos["thumb"])

\* every set_servo_angle call of the Hand method g, in the order of the calls
GestureCalls(g) ==
  CASE g[1] \in {"make_fist", "make_metal"} ->
         clear_thumb_start \o AfterClearThumb(g) \o close_thumb_end
    [] g[1] = "make_number" ->
         clear_thumb_start \o AfterClearThumb(g)
         \o (IF g[2] >= 5 THEN <<>> ELSE close_thumb_end)
    [] g[1] = "display_binary" ->
         IF g[2] >= 0 /\ g[2] <= 31 THEN make_palm \o display_binary_bits(g[2]) ELSE <<>>
    [] g[1] = "make_palm" -> make_palm
    [] g[1] = "make_call_me" -> make_call_me
    [] g[1] = "make_casey_neistat_wave" -> make_casey_neistat_wave
    [] g[1] = "make_ripple_wave" -> make_ripple_wave

\* the target of the last call of calls on joint j; without a call on j, the
\* pose the startup moves end in
LastTarget(calls, j) ==
  LET on == {i \in DOMAIN calls : calls[i][1] = j}
  IN  IF on = {} THEN FFromInt(min_pos[j])
      ELSE ClampTarget(j, calls[CHOOSE i \in on : \A k \in on : k <= i][2])

\* the main loop is at the top of an iteration with nothing pending
Quiescent == pc = "loop" /\ \A j \in Joints : queue[j] = <<>>

\* C16: a Hand method invoked once, and the same method invoked twice in a
\* row, leave every joint at the same position once all queues are empty: the
\* last target the method gives the joint; for make_palm that is min_pos for
\* every joint.
C16_GesturesAreIdempotent ==
  (Quiescent /\ history # <<>> /\ history[1][1] = "call") =>
    (history \in {<<history[1]>>, <<history[1], history[1]>>} =>
       /\ \A j \in Joints : position[j] = LastTarget(GestureCalls(history[1][2]), j)
       /\ history[1][2] = <<"make_palm">> =>
            \A j \in Joints : position[j] = FFromInt(min_pos[j]))

\* C16: make_call_me was invoked twice in a row and all queues are empty.
C16_Witness ==
  /\ Quiescent
  /\ history = << <<"call", <<"make_call_me">>>>, <<"call", <<"make_call_me">>>> >>
  /\ position["index"] = FFromInt(max_pos["index"])
  /\ position["pinkie"] = FFromInt(min_pos["pinkie"])

\* the message this step receives, if it receives one
Received(m) == history' = Append(history, <<"message", m>>)

\* C17: a message on the command topic whose command word is not PALM, FIST,
\* CALL_ME or METAL and not one character long changes no joint position or
\* queue, not the keypress mailbox and not the input mode, and the main loop
\* goes on to its update.
C17_UnknownWordIsDropped ==
  [][\A m \in Messages :
       (/\ Received(m)
        /\ m[1] = COMMAND_TOPIC
        /\ Len(m[2]) >= 2
        /\ m[2][2] \notin {"PALM", "FIST", "CALL_ME", "METAL"}
        /\ Len(m[2][2]) # 1) =>
         /\ pc' = "update"
         /\ UNCHANGED <<position, queue, keypress, input_mode, input_string,
                        gesture, quit_flag, status, finished>>]_vars

\* C17: the word WAVE was received while the startup moves were pending and
\* was dropped.
C17_Witness ==
  /\ history = << <<"message", Msg(COMMAND_TOPIC, <<"COMMAND", "WAVE">>)>> >>
  /\ pc = "update"
  /\ tick = "none"
  /\ Len(queue["index"]) = num_steps
  /\ keypress = ""

\* C18: a key received by on_message is in the mailbox at the top of the next
\* main-loop iteration, and that iteration's keypress handler handles it, with
\* the effect of a local press of that key, and empties the mailbox.
C18_RemoteKeyIsHandled ==
  [][(pc = "loop" /\ keypress # "") =>
       \E o \in {HandleKeypress(keypress)} :
         /\ queue' = Run(queue, o.calls)
         /\ pc' = o.pc
         /\ returned' = o.returned
         /\ input_mode' = o.input_mode
         /\ input_string' = o.input_string
         /\ keypress' = ""]_vars

\* the key of this step's key event, if it has one
Typed(k) == history' = Append(history, <<"key", k>>)

\* display_binary is invoked with n in this step: it enters its wait, or for
\* n outside 0..31 it has returned
DisplayInvoked(n) ==
  IF n >= 0 /\ n <= 31 THEN pc' = "wait_open" /\ gesture' = <<"display_binary", n>>
  ELSE pc' = "mqtt" /\ returned' = <<"display_binary">> /\ input_mode' = INPUT_NORMAL

\* C19: in normal input mode the key 'b' enters binary mode; there a first
\* digit is kept, and a second digit or Enter invokes display_binary with the
\* number typed; when display_binary returns the input mode is normal again.
\* The program keeps running throughout.
C19_BinaryMode ==
  [][/\ (Typed("b") /\ input_mode = INPUT_NORMAL) =>
          /\ pc' # "crashed"
          /\ input_mode' = INPUT_BINARY
          /\ input_string' = <<>>
     /\ \A d \in Digits :
          /\ (Typed(d) /\ input_mode = INPUT_BINARY /\ input_string = <<>>) =>
               /\ pc' # "crashed"
               /\ input_mode' = INPUT_BINARY
               /\ input_string' = <<d>>
          /\ (Typed(d) /\ input_mode = INPUT_BINARY /\ Len(input_string) = 1) =>
               DisplayInvoked(10 * DigitValue(input_string[1]) + DigitValue(d))
     /\ (Typed(ENTER) /\ input_mode = INPUT_BINARY /\ Len(input_string) = 1) =>
          DisplayInvoked(DigitValue(input_string[1]))
     /\ (pc = "wait_open" /\ pc' # "wait_open" /\ ret = "handler_end") =>
          /\ pc' = "mqtt"
          /\ returned' = <<"display_binary">>
          /\ input_mode' = INPUT_NORMAL]_vars

\* C20: Enter in arithmetic mode, the expression typed evaluating to n:
\* for n in 0..31 display_binary shows n in binary, pinkie the lowest bit; for
\* n outside 0..31 the hand makes a fist (make_fist starts, or close targets
\* are queued for index, middle, ring and pinkie); either way the input mode
\* is normal again when the handler ends.
C20_ArithmeticMode ==
  [][/\ (Typed(ENTER) /\ input_mode = INPUT_ARITHMETIC /\ eval(input_string)[1]) =>
          IF eval(input_string)[2] >= 0 /\ eval(input_string)[2] <= 31
          THEN /\ pc' = "wait_open"
               /\ gesture' = <<"display_binary", eval(input_string)[2]>>
          ELSE /\ \/ gesture' = <<"make_fist">>
                  \/ \A i \in 1..4 :
                       /\ queue'[fingers_not_thumb[i]] # <<>>
                       /\ Last(queue'[fingers_not_thumb[i]]) =
                            FFromInt(max_pos[fingers_not_thumb[i]])
               /\ pc' \in {"clear_thumb", "close_thumb"} \/ input_mode' = INPUT_NORMAL
     /\ (pc = "wait_open" /\ pc' # "wait_open" /\ ret = "handler_end") =>
          /\ returned' = <<"display_binary">>
          /\ input_mode' = INPUT_NORMAL
          /\ \A i \in 0..3 :
               Last(queue'[BitFingers[i + 1]]) =
                 FFromInt(IF (gesture[2] \div 2^i) % 2 = 1 THEN min_pos[BitFingers[i + 1]]
                          ELSE max_pos[BitFingers[i + 1]])]_vars

\* C21: whenever some joint has values pending, the hand later reaches a
\* state in which every joint's queue is empty and a READY line is published.
C21_TrajectoriesComplete ==
  (\E j \in Joints : queue[j] # <<>>)
    ~> ((\A j \in Joints : queue[j] = <<>>) /\ StatusOf(sent) = <<STATUS_READY>>)

\* the program is inside the wait of clear_thumb, close_thumb or display_binary
InWait == pc \in {"clear_thumb", "close_thumb", "wait_open"}

\* the calls the gesture in progress makes when its wait ends
CallsAfterWait ==
  CASE pc = "clear_thumb" -> AfterClearThumb(gesture)
    [] pc = "close_thumb" -> close_thumb_end
    [] pc = "wait_open" -> display_binary_bits(gesture[2])

\* C22: inside the wait of clear_thumb, close_thumb or display_binary no
\* message is dispatched and no key is handled; while the wait goes on the
\* queues receive nothing, and when it ends they receive the targets of the
\* gesture in progress and nothing else.
C22_WaitsTakeNoInput ==
  [][InWait =>
       /\ history' = history
       /\ inputs' = inputs
       /\ InWait' => keypress' = keypress
       /\ pc' = pc => \A j \in Joints : queue'[j] = queue[j] \/ Popped(j)
       /\ pc' # pc => queue' = Run(queue, CallsAfterWait)]_vars

\* C22: the hand is inside the wait of a display_binary that the keys '=',
\* '1', Enter have started, and the environment has further input to give.
C22_Witness ==
  /\ pc = "wait_open"
  /\ tick = "gesture"
  /\ history = << <<"key", "=">>, <<"key", "1">>, <<"key", ENTER>> >>

\* C23: every telemetry line lists thumb, index, middle, ring, pinkie and then
\* the wrist: whenever show_positions runs, Hand.fingers is in its original
\* order.
C23_TelemetryOrderIsFixed ==
  [][TelemetrySent(sent') =>
       show_positions = <<"thumb", "index", "middle", "ring", "pinkie", "wrist">>]_vars

\* C23: a telemetry line is published by the main loop after display_binary(5)
\* has reversed the finger list, swapped it back and returned.
C23_Witness ==
  /\ TelemetrySent(sent)
  /\ tick = "main"
  /\ history = << <<"call", <<"display_binary", 5>>>> >>
  /\ position["ring"] # FFromInt(min_pos["ring"])
  /\ queue["ring"] # <<>>

Called(g) == history' = Append(history, <<"call", g>>)

\* the gestures that are said not to wait
SaidNotToWait ==
  {<<"make_palm">>, <<"make_call_me">>, <<"make_casey_neistat_wave">>,
   <<"make_ripple_wave">>} \cup {<<"make_number", n>> : n \in 0..5}

\* C25: make_palm, make_call_me, make_number(n) for n in 0..5 and the two
\* waves return at once: they only enqueue, and every joint's position at the
\* return is its position at the call.
C25_OnlyFistAndMetalWait ==
  [][\A g \in SaidNotToWait :
       Called(g) =>
         /\ pc' = "update"
         /\ returned' = <<g[1]>>
         /\ position' = position]_vars

\* C25, amended: make_palm, make_call_me and the two waves return at once:
\* they only enqueue their targets, and every joint's position at the return
\* is its position at the call. make_number(n) does wait: every call enters
\* the wait of clear_thumb, which applies the thumb's pending values, and for
\* n < 5 the wait of close_thumb follows, which applies every finger's.
C25_NumberWaitsToo ==
  [][/\ \A g \in SaidNotToWait :
          (Called(g) /\ g[1] # "make_number") =>
            /\ pc' = "update"
            /\ returned' = <<g[1]>>
            /\ position' = position
            /\ queue' = Run(queue, GestureCalls(g))
     /\ \A n \in 0..5 :
          /\ Called(<<"make_number", n>>) =>
               /\ pc' = "clear_thumb"
               /\ returned' = <<>>
               /\ queue'["thumb"] # <<>>
          /\ (gesture = <<"make_number", n>> /\ pc = "clear_thumb" /\ pc' # pc) =>
               /\ queue["thumb"] = <<>>
               /\ position["thumb"] = FFromInt(70)
               /\ IF n < 5 THEN pc' = "close_thumb" /\ returned' = <<>>
                  ELSE pc' = "update" /\ returned' = <<"make_number">>]_vars

\* C25: make_ripple_wave has returned at once, the fingers still closed as
\* they were at the call, with its 100 values behind the pending ones.
C25_Witness ==
  /\ returned = <<"make_ripple_wave">>
  /\ pc = "update"
  /\ history = << <<"call", <<"make_ripple_wave">>>> >>
  /\ position["index"] = FFromInt(max_pos["index"])
  /\ Len(queue["index"]) = 6 * num_steps

\* C26: when MQTT is enabled and the console is without a client, it retries
\* on its 5-second timer, and with the broker reachable a retry sets the
\* client and unlocks the buttons.
C26_RetryConnects ==
  (MQTT_ENABLED /\ ~telemetry /\ reachable) ~> (telemetry /\ enabled)

\* C27: for each joint's calibration get_flexion is 0 at min_pos, 100 at
\* max_pos, and from a position in [min_pos, max_pos] to a larger one it does
\* not decrease.
C27_FlexionIsMonotone ==
  [][\A j \in Joints :
       /\ position[j] = FFromInt(min_pos[j]) => get_flexion(j, position[j]) = 0
       /\ position'[j] = FFromInt(max_pos[j]) => get_flexion(j, position'[j]) = 100
       /\ (/\ InCalibration(j, position[j])
           /\ InCalibration(j, position'[j])
           /\ FLeq(position[j], position'[j])) =>
            get_flexion(j, position[j]) <= get_flexion(j, position'[j])]_vars

\* C27: show_positions has read the flexion of joints that stand between
\* their ends, the thumb neither at 10 nor at 150 degrees, and every joint
\* reads 50.
C27_Witness ==
  /\ sent = <<TELEMETRY>>
  /\ pc = "start"
  /\ FLess(FFromInt(min_pos["thumb"]), position["thumb"])
  /\ FLess(position["thumb"], FFromInt(max_pos["thumb"]))
  /\ \A j \in Joints : get_flexion(j, position[j]) = 50

\* the whole part of 53 * v, computed exactly, for a float 0 <= v < 2^8
WholeOf53Times(v) ==
  IF IsZero(v) \/ v[1] < -60 THEN 0
  ELSE The({ s[1] + Limb * s[2]
             : s \in {ShiftLeft(Carry([k \in 1..9 |-> 53 * Big(v)[k]]), v[1])} })

\* floor(angle * 530 / 180) + 114 in exact arithmetic
LinearMap(angle) == (WholeOf53Times(angle) \div 18) + 114

\* C28: every pulse width Joint.update commands lies in [114, 644] and is
\* floor(angle * 530 / 180) + 114 for the angle popped; angle 0 gives 114 and
\* angle 180 gives 644.
C28_PulseWidthInRange ==
  [][/\ pulse_width(FFromInt(0)) = 114
     /\ pulse_width(FFromInt(180)) = 644
     /\ \A j \in Joints :
          (Popped(j) /\ position'[j] = Head(queue[j])) =>
            /\ pulse_width(Head(queue[j])) \in 114..644
            /\ pulse_width(Head(queue[j])) = LinearMap(Head(queue[j]))]_vars

\* C28: the index finger is on its way after the key 'f', at a value that is
\* not a whole number of degrees, and the pulse for it lies strictly between
\* the pulses of its calibration's ends.
C28_Witness ==
  /\ tick = "main"
  /\ history = << <<"key", "f">> >>
  /\ position["index"] # FFromInt(FFloor(position["index"]))
  /\ pulse_width(position["index"]) > pulse_width(FFromInt(min_pos["index"]))
  /\ pulse_width(position["index"]) < pulse_width(FFromInt(max_pos["index"]))

\* the status line published last, if any: the first main-loop iteration
\* publishes one and arms the timer, and from then on every change of status
\* is published
Announced ==
  IF status_timeout = "start" THEN <<>>
  ELSE <<IF status THEN STATUS_READY ELSE STATUS_BUSY>>

\* C29: whenever a telemetry position line is published, a status line has
\* been published before it and the last one is status:BUSY.
C29_TelemetryOnlyWhileAnnouncedBusy ==
  [][TelemetrySent(sent') => Announced = <<STATUS_BUSY>>]_vars

\* C30: when display_binary(n), 0 <= n <= 31, leaves its wait and enqueues
\* the first target of a bit, the queue of every finger is empty and every
\* finger stands at its min_pos, whatever was pending at the call.
C30_BitsStartFromOpenHand ==
  [][(pc = "wait_open" /\ pc' # "wait_open") =>
       /\ gesture[2] \in 0..31
       /\ \A f \in Fingers :
            /\ queue[f] = <<>>
            /\ position[f] = FFromInt(min_pos[f])
            /\ Len(queue'[f]) = num_steps
            /\ Head(queue'[f]) = FFromInt(min_pos[f])]_vars

\* C30: display_binary(21) was called in the first main-loop iteration, with
\* the moves of the startup pending, and has returned: every finger stands
\* open with the num_steps values of its bit pending.
C30_Witness ==
  /\ returned = <<"display_binary">>
  /\ history = << <<"call", <<"display_binary", 21>>>> >>
  /\ \A f \in Fingers :
       position[f] = FFromInt(min_pos[f]) /\ Len(queue[f]) = num_steps
  /\ Last(queue["thumb"]) = FFromInt(min_pos["thumb"])
  /\ Last(queue["index"]) = FFromInt(max_pos["index"])

\* the pose of each gesture word, in degrees
Pose(w) ==
  CASE w = "PALM" -> [thumb |-> 10, index |-> 20, middle |-> 0, ring |-> 10, pinkie |-> 10]
    [] w = "FIST" -> [thumb |-> 120, index |-> 130, middle |-> 140, ring |-> 130, pinkie |-> 120]
    [] w = "CALL_ME" -> [thumb |-> 10, index |-> 130, middle |-> 140, ring |-> 130, pinkie |-> 10]
    [] w = "METAL" -> [thumb |-> 120, index |-> 20, middle |-> 140, ring |-> 130, pinkie |-> 10]

\* C31: once the hand has dispatched the command word PALM, FIST, CALL_ME or
\* METAL and every queue is empty again, the fingers stand at the pose of the
\* gesture: min_pos for an open finger, max_pos for a closed one, and 120 for
\* the thumb of FIST and METAL.
C31_RemoteGesturePose ==
  \A w \in {"PALM", "FIST", "CALL_ME", "METAL"} :
    (Quiescent /\ history = << <<"message", Msg(COMMAND_TOPIC, <<"COMMAND", w>>)>> >>) =>
      /\ \A f \in {"thumb", "index", "middle", "ring", "pinkie"} :
           position[f] = FFromInt(Pose(w)[f])
      /\ \A f \in {"index", "middle", "ring", "pinkie"} :
           Pose(w)[f] \in {min_pos[f], max_pos[f]}
      /\ Pose(w)["thumb"] \in {min_pos["thumb"], 120}

\* C31: the word METAL was dispatched, every queue is empty again, and the
\* thumb stands at 120 between the open index and the closed middle finger.
C31_Witness ==
  /\ Quiescent
  /\ history = << <<"message", Msg(COMMAND_TOPIC, <<"COMMAND", "METAL">>)>> >>
  /\ position["thumb"] = FFromInt(120)
  /\ position["index"] = FFromInt(min_pos["index"])
  /\ position["middle"] = FFromInt(max_pos["middle"])

\* C33: for a joint at a whole number of degrees within its calibration the
\* flexion reported is 100 * (position - min_pos) / (max_pos - min_pos)
\* rounded to the nearest integer: the two differ by at most one half.
C33_FlexionIsRounded ==
  \A j \in Joints :
    (InCalibration(j, position[j]) /\ position[j] = FFromInt(FFloor(position[j]))) =>
      \E v \in {get_flexion(j, position[j])}, d \in {FFloor(position[j]) - min_pos[j]} :
        /\ 2 * (v * (max_pos[j] - min_pos[j]) - 100 * d) <= max_pos[j] - min_pos[j]
        /\ 2 * (100 * d - v * (max_pos[j] - min_pos[j])) <= max_pos[j] - min_pos[j]

\* C32: while a command of the console is on its way to the hand, or the hand
\* has dispatched it and a joint still has values pending, the console's
\* buttons are disabled.
C32_ButtonsLockedUntilDone ==
  (to_hand # <<>> \/ (inputs > 0 /\ \E j \in Joints : queue[j] # <<>>)) => ~enabled

====
